---- MODULE Spec2Model ----
(***************************************************************************)
(* Model of temp_missing.py: a two-pass scan of a Unity project tree.      *)
(* Pass 1 collects the guid of every *.cs.meta file under the root, pass 2 *)
(* scans the asset files under Assets for m_Script references whose guid   *)
(* was not collected, and the report prints the sorted findings.           *)
(* Text is modelled as a sequence of one-character strings, so that the    *)
(* string operations of the script (startswith, split, strip, lower, the   *)
(* regular expression) are computed character by character.                *)
(***************************************************************************)
EXTENDS Integers, Sequences, FiniteSets, TLC

(***************************************************************************)
(* White space characters that have no escape in a TLA+ string; they are   *)
(* written as the character itself, between the quotes.                    *)
(***************************************************************************)
\* U+000B, line tabulation
VT == ""
\* U+001C to U+001F, the information separators
FS == ""
GS == ""
RS == ""
US == ""
\* U+0085, next line
NEL == ""
\* U+00A0, no-break space
NBSP == " "
\* U+1680, ogham space mark
OGHAM == " "

(***************************************************************************)
(* Characters.  CodePoints lists the characters the model uses in          *)
(* ascending Unicode code point order, which is the order Python compares  *)
(* strings by.                                                             *)
(***************************************************************************)
CodePoints ==
  << "\t", "\n", VT, "\f", "\r", FS, GS, RS, US, " ", ",", "-", ".", "/",
     "0", "1", "2", "3", "4", "5", "6", "7", "8", "9", ":", ">",
     "A", "B", "C", "D", "E", "F", "G", "H", "I", "J", "K", "L", "M",
     "N", "O", "P", "Q", "R", "S", "T", "U", "V", "W", "X", "Y", "Z", "_",
     "a", "b", "c", "d", "e", "f", "g", "h", "i", "j", "k", "l", "m",
     "n", "o", "p", "q", "r", "s", "t", "u", "v", "w", "x", "y", "z",
     "{", "}", NEL, NBSP, OGHAM >>

ord(c) == CHOOSE i \in 1..Len(CodePoints) : CodePoints[i] = c

UpperCase ==
  << "A", "B", "C", "D", "E", "F", "G", "H", "I", "J", "K", "L", "M",
     "N", "O", "P", "Q", "R", "S", "T", "U", "V", "W", "X", "Y", "Z" >>

LowerCase ==
  << "a", "b", "c", "d", "e", "f", "g", "h", "i", "j", "k", "l", "m",
     "n", "o", "p", "q", "r", "s", "t", "u", "v", "w", "x", "y", "z" >>

\* str.lower() on one character
lowerChar(c) ==
  IF \E i \in 1..26 : UpperCase[i] = c
    THEN LowerCase[CHOOSE i \in 1..26 : UpperCase[i] = c]
    ELSE c

\* str.upper() on one character (used only to build input files)
upperChar(c) ==
  IF \E i \in 1..26 : LowerCase[i] = c
    THEN UpperCase[CHOOSE i \in 1..26 : LowerCase[i] = c]
    ELSE c

\* str.lower()
lower(s) == [i \in 1..Len(s) |-> lowerChar(s[i])]

upper(s) == [i \in 1..Len(s) |-> upperChar(s[i])]

\* the characters str.strip() removes and the regex class \s matches in a
\* str pattern: those for which str.isspace() holds.  The other Unicode
\* spaces (U+2000 to U+200A, U+2028, U+2029, U+202F, U+205F, U+3000) cannot
\* be written in a TLA+ string and no text of the model contains them.
isspace(c) ==
  c \in {"\t", "\n", VT, "\f", "\r", FS, GS, RS, US, " ", NEL, NBSP, OGHAM}

\* str.startswith(p)
startswith(s, p) == Len(s) >= Len(p) /\ SubSeq(s, 1, Len(p)) = p

\* str.endswith(p)
endswith(s, p) ==
  Len(s) >= Len(p) /\ SubSeq(s, Len(s) - Len(p) + 1, Len(s)) = p

RECURSIVE lstrip(_)
lstrip(s) ==
  IF s # << >> /\ isspace(Head(s)) THEN lstrip(Tail(s)) ELSE s

RECURSIVE rstrip(_)
rstrip(s) ==
  IF s # << >> /\ isspace(s[Len(s)])
    THEN rstrip(SubSeq(s, 1, Len(s) - 1))
    ELSE s

\* str.strip()
strip(s) == rstrip(lstrip(s))

\* line.split(':', 1)[1]: what follows the first colon of a line that has one
splitColon1(s) ==
  LET i == CHOOSE k \in 1..Len(s) :
             s[k] = ":" /\ \A j \in 1..(k - 1) : s[j] # ":"
  IN  SubSeq(s, i + 1, Len(s))

\* open() in text mode with the default newline: '\r\n' and '\r' are read
\* as '\n'
universalNewlines(raw) ==
  LET marked == [ i \in 1..Len(raw) |->
                   IF raw[i] = "\r" THEN "\n"
                   ELSE IF raw[i] = "\n" /\ i > 1 /\ raw[i - 1] = "\r" THEN ""
                   ELSE raw[i] ]
      kept(c) == c # ""
  IN  SelectSeq(marked, kept)

\* iteration of a text file: the lines of a text, each with its line end
RECURSIVE readlines(_)
readlines(text) ==
  IF text = << >> THEN << >>
  ELSE IF \E k \in 1..Len(text) : text[k] = "\n"
    THEN LET i == CHOOSE k \in 1..Len(text) :
                    text[k] = "\n" /\ \A j \in 1..(k - 1) : text[j] # "\n"
         IN  << SubSeq(text, 1, i) >> \o readlines(SubSeq(text, i + 1, Len(text)))
    ELSE << text >>

(***************************************************************************)
(* Program constants.                                                      *)
(***************************************************************************)
\* name.endswith('.cs.meta')
MetaSuffix == << ".", "c", "s", ".", "m", "e", "t", "a" >>

\* line.startswith('guid: ')
GuidKey == << "g", "u", "i", "d", ":", " " >>

\* target_exts = ('.prefab', '.unity', '.asset')
target_exts == { << ".", "p", "r", "e", "f", "a", "b" >>,
                 << ".", "u", "n", "i", "t", "y" >>,
                 << ".", "a", "s", "s", "e", "t" >> }

\* assets_root = os.path.join(root, 'Assets')
AssetsDir == << "A", "s", "s", "e", "t", "s" >>

\* the path separator of os.path.join and os.path.relpath
sep == << "/" >>

\* the literal parts of the pattern, between its \s* gaps
PatScript == << "m", "_", "S", "c", "r", "i", "p", "t", ":" >>
PatFileID == << "{", "f", "i", "l", "e", "I", "D", ":" >>
PatType == << "1", "1", "5", "0", "0", "0", "0", "0", "," >>
PatGuid == << "g", "u", "i", "d", ":" >>

\* ([0-9a-f]{32})
GuidLen == 32

HexDigits ==
  {"0", "1", "2", "3", "4", "5", "6", "7", "8", "9", "a", "b", "c", "d", "e", "f"}

ArrowText == << " ", "-", ">", " " >>

NoMissingLine == << "N", "o", " ", "m", "i", "s", "s", "i", "n", "g", " ", "s", "c", "r", "i", "p", "t", "s", " ", "u", "n", "d", "e", "r", " ", "A", "s", "s", "e", "t", "s" >>

(***************************************************************************)
(* The regular expression                                                  *)
(*   m_Script:\s*\{fileID:\s*11500000,\s*guid:\s*([0-9a-f]{32})           *)
(* compiled with re.IGNORECASE.  Every \s* is followed by a character that *)
(* is not white space, so the greedy match never has to backtrack.         *)
(***************************************************************************)
\* a literal part of the pattern matches text at pos, ignoring case
matchLiteral(text, pos, literal) ==
  /\ pos + Len(literal) - 1 <= Len(text)
  /\ \A i \in 1..Len(literal) :
       lowerChar(text[pos + i - 1]) = lowerChar(literal[i])

\* \s* from pos: the first position at or after pos that holds no white space
RECURSIVE skipSpace(_, _)
skipSpace(text, pos) ==
  IF pos <= Len(text) /\ isspace(text[pos])
    THEN skipSpace(text, pos + 1)
    ELSE pos

\* [0-9a-f]{32} at pos, ignoring case
matchHex(text, pos) ==
  /\ pos + GuidLen - 1 <= Len(text)
  /\ \A i \in 0..(GuidLen - 1) : lowerChar(text[pos + i]) \in HexDigits

\* pattern.match at pos: 0 when there is no match, otherwise the position
\* just after the match; group(1) is the GuidLen characters before it
matchAt(text, pos) ==
  LET p2 == skipSpace(text, pos + Len(PatScript))
      p3 == skipSpace(text, p2 + Len(PatFileID))
      p4 == skipSpace(text, p3 + Len(PatType))
      p5 == skipSpace(text, p4 + Len(PatGuid))
  IN  IF /\ matchLiteral(text, pos, PatScript)
         /\ matchLiteral(text, p2, PatFileID)
         /\ matchLiteral(text, p3, PatType)
         /\ matchLiteral(text, p4, PatGuid)
         /\ matchHex(text, p5)
        THEN p5 + GuidLen
        ELSE 0

\* pattern.finditer(text): group(1) of the successive non-overlapping
\* matches, from position pos on, in text order
RECURSIVE finditerFrom(_, _)
finditerFrom(text, pos) ==
  IF pos > Len(text) THEN << >>
  ELSE LET e == matchAt(text, pos)
       IN  IF e = 0
             THEN finditerFrom(text, pos + 1)
             ELSE << SubSeq(text, e - GuidLen, e - 1) >> \o finditerFrom(text, e)

finditer(text) == finditerFrom(text, 1)

(***************************************************************************)
(* Paths.  A file is a record                                              *)
(*   [dir |-> the directories from the root down to the file,              *)
(*    name |-> the file name, text |-> its content, readable |-> whether   *)
(*    open() succeeds].                                                    *)
(***************************************************************************)
\* os.path.relpath(path, root)
RECURSIVE joinDirs(_)
joinDirs(dir) ==
  IF dir = << >> THEN << >> ELSE Head(dir) \o sep \o joinDirs(Tail(dir))

relpath(f) == joinDirs(f.dir) \o f.name

\* the file is met by os.walk(assets_root)
underAssets(f) == f.dir # << >> /\ f.dir[1] = AssetsDir

\* not name.endswith('.cs.meta') is false
isMeta(f) == endswith(f.name, MetaSuffix)

\* not name.lower().endswith(target_exts) is false
isTarget(f) == \E ext \in target_exts : endswith(lower(f.name), ext)

(***************************************************************************)
(* Pass 1, one file: the guids the body of the collection loop adds.       *)
(***************************************************************************)
\* variant: the identifier is lower-cased when it is added
RECURSIVE firstGuidLineLower(_)
firstGuidLineLower(lines) ==
  IF lines = << >> THEN {}
  ELSE IF startswith(Head(lines), GuidKey)
    THEN { lower(strip(splitColon1(Head(lines)))) }
    ELSE firstGuidLineLower(Tail(lines))

\* variant: no break after the first 'guid: ' line
RECURSIVE firstGuidLineNoBreak(_)
firstGuidLineNoBreak(lines) ==
  IF lines = << >> THEN {}
  ELSE IF startswith(Head(lines), GuidKey)
    THEN { strip(splitColon1(Head(lines))) } \cup firstGuidLineNoBreak(Tail(lines))
    ELSE firstGuidLineNoBreak(Tail(lines))

\* for line in fh: if line.startswith('guid: '): add(...); break
RECURSIVE firstGuidLine(_)
firstGuidLine(lines) ==
  IF lines = << >> THEN {}
  ELSE IF startswith(Head(lines), GuidKey)
    THEN { strip(splitColon1(Head(lines))) }
    ELSE firstGuidLine(Tail(lines))

\* variant: the test of the file name is left out
collectFileAnyName(f) ==
  IF ~f.readable THEN {}
  ELSE firstGuidLine(readlines(universalNewlines(f.text)))

\* the loop body for one file of the walk over root
collectFile(f) ==
  IF ~isMeta(f) THEN {}
  ELSE IF ~f.readable THEN {}
  ELSE firstGuidLine(readlines(universalNewlines(f.text)))

(***************************************************************************)
(* Pass 2, one file: the records the body of the scan loop adds.           *)
(***************************************************************************)
\* variant: no break after the first absent guid
RECURSIVE firstAbsentNoBreak(_, _)
firstAbsentNoBreak(matches, guids) ==
  IF matches = << >> THEN {}
  ELSE LET guid == lower(Head(matches))
       IN  IF guid \notin guids
             THEN { guid } \cup firstAbsentNoBreak(Tail(matches), guids)
             ELSE firstAbsentNoBreak(Tail(matches), guids)

\* variant: the membership test is inverted
RECURSIVE firstAbsentInverted(_, _)
firstAbsentInverted(matches, guids) ==
  IF matches = << >> THEN {}
  ELSE LET guid == lower(Head(matches))
       IN  IF guid \in guids
             THEN { guid }
             ELSE firstAbsentInverted(Tail(matches), guids)

\* variant: the guid is compared as written in the asset file
RECURSIVE firstAbsentNoLower(_, _)
firstAbsentNoLower(matches, guids) ==
  IF matches = << >> THEN {}
  ELSE LET guid == Head(matches)
       IN  IF guid \notin guids
             THEN { guid }
             ELSE firstAbsentNoLower(Tail(matches), guids)

\* for match in pattern.finditer(text): guid = lower; if absent: add; break
RECURSIVE firstAbsent(_, _)
firstAbsent(matches, guids) ==
  IF matches = << >> THEN {}
  ELSE LET guid == lower(Head(matches))
       IN  IF guid \notin guids
             THEN { guid }
             ELSE firstAbsent(Tail(matches), guids)

\* variant: an asset file that cannot be opened is recorded, without guid
scanFileFlagUnreadable(f, guids) ==
  IF ~isTarget(f) THEN {}
  ELSE IF ~f.readable THEN { << relpath(f), << >> >> }
  ELSE { << relpath(f), guid >> :
           guid \in firstAbsent(finditer(universalNewlines(f.text)), guids) }

\* the loop body for one file of the walk over assets_root
scanFile(f, guids) ==
  IF ~isTarget(f) THEN {}
  ELSE IF ~f.readable THEN {}
  ELSE { << relpath(f), guid >> :
           guid \in firstAbsent(finditer(universalNewlines(f.text)), guids) }

(***************************************************************************)
(* The report: sorted(missing) and the printed lines.                      *)
(***************************************************************************)
\* a < b for Python strings
RECURSIVE strLess(_, _)
strLess(a, b) ==
  IF b = << >> THEN FALSE
  ELSE IF a = << >> THEN TRUE
  ELSE IF Head(a) = Head(b) THEN strLess(Tail(a), Tail(b))
  ELSE ord(Head(a)) < ord(Head(b))

\* a < b for Python tuples (rel, guid)
tupleLess(a, b) ==
  \/ strLess(a[1], b[1])
  \/ a[1] = b[1] /\ strLess(a[2], b[2])

\* variant: sorted(missing, reverse=True)
RECURSIVE sortedReverse(_)
sortedReverse(S) ==
  IF S = {} THEN << >>
  ELSE LET m == CHOOSE x \in S : \A y \in S \ {x} : tupleLess(y, x)
       IN  << m >> \o sortedReverse(S \ {m})

\* sorted(missing)
RECURSIVE sorted(_)
sorted(S) ==
  IF S = {} THEN << >>
  ELSE LET m == CHOOSE x \in S : \A y \in S \ {x} : tupleLess(x, y)
       IN  << m >> \o sorted(S \ {m})

\* f"{rel} -> {guid}"
formatLine(rec) == rec[1] \o ArrowText \o rec[2]

\* if missing: print each sorted record; else: print the fixed line
report(miss) ==
  IF miss # {}
    THEN LET s == sorted(miss) IN [i \in 1..Len(s) |-> formatLine(s[i])]
    ELSE << NoMissingLine >>

(***************************************************************************)
(* Input: the project trees the runs are checked on.  A tree is a set of   *)
(* at most MaxFiles files of the catalogue below.  The guids are 32 hex    *)
(* digits, as in Unity's .meta files.                                      *)
(***************************************************************************)
MaxFiles == 3

Rep(c, n) == [i \in 1..n |-> c]

GuidA == << "a", "b", "c", "1", "2", "3" >> \o Rep("0", 26)
GuidB == << "0", "f", "9", "e", "8", "d", "7", "c" >> \o Rep("1", 24)
GuidC == << "d", "e", "a", "d", "b", "e", "e", "f" >> \o Rep("2", 24)

VersionLine == << "f", "i", "l", "e", "F", "o", "r", "m", "a", "t", "V", "e", "r", "s", "i", "o", "n", ":", " ", "2", "\n" >>
Newline == << "\n" >>
RefOpen == << " ", " ", "m", "_", "S", "c", "r", "i", "p", "t", ":", " ", "{", "f", "i", "l", "e", "I", "D", ":", " ", "1", "1", "5", "0", "0", "0", "0", "0", ",", " ", "g", "u", "i", "d", ":", " " >>
RefClose == << ",", " ", "t", "y", "p", "e", ":", " ", "3", "}", "\n" >>
CompactOpen == << "m", "_", "S", "c", "r", "i", "p", "t", ":", "{", "f", "i", "l", "e", "I", "D", ":", "1", "1", "5", "0", "0", "0", "0", "0", ",", "g", "u", "i", "d", ":" >>
IconOpen == << " ", " ", "m", "_", "I", "c", "o", "n", ":", " ", "{", "f", "i", "l", "e", "I", "D", ":", " ", "2", "8", "0", "0", "0", "0", "0", ",", " ", "g", "u", "i", "d", ":", " " >>
ObjectLine == << "M", "o", "n", "o", "B", "e", "h", "a", "v", "i", "o", "u", "r", ":", "\n" >>

\* a script component record of an asset file
ScriptRef(g) == RefOpen \o g \o RefClose

\* the same record written without white space between its tokens
CompactRef(g) == CompactOpen \o g \o RefClose

\* the same record with other white space characters between its tokens
SeparatorOpen ==
  PatScript \o << VT >> \o PatFileID \o << FS, NBSP >> \o PatType
    \o << US >> \o PatGuid \o << GS, OGHAM >>

SeparatorRef(g) == SeparatorOpen \o g \o RefClose

\* a reference of another kind: same record shape, another fileID
IconRef(g) == IconOpen \o g \o RefClose

File(dir, name, text, readable) ==
  [dir |-> dir, name |-> name, text |-> text, readable |-> readable]

Catalogue ==
  << \* metadata files
     File(<< AssetsDir >>, << "F", "o", "o", ".", "c", "s", ".", "m", "e", "t", "a" >>,
          VersionLine \o GuidKey \o GuidA \o Newline, TRUE),
     File(<< << "L", "i", "b" >> >>, << "B", "a", "r", ".", "c", "s", ".", "m", "e", "t", "a" >>,
          GuidKey \o << RS >> \o GuidB \o << VT, " ", NEL, "\n" >>
            \o GuidKey \o GuidC \o Newline, TRUE),
     File(<< AssetsDir >>, << "U", "p", ".", "c", "s", ".", "m", "e", "t", "a" >>,
          VersionLine \o GuidKey \o upper(GuidA) \o Newline, TRUE),
     File(<< AssetsDir, << "S", "u", "b" >> >>, << "L", "o", "c", "k", "e", "d", ".", "c", "s", ".", "m", "e", "t", "a" >>,
          VersionLine \o GuidKey \o GuidB \o Newline, FALSE),
     File(<< >>, << "N", "o", "K", "e", "y", ".", "c", "s", ".", "m", "e", "t", "a" >>,
          VersionLine \o << "g", "u", "i", "d", ":" >> \o GuidC \o Newline, TRUE),
     File(<< AssetsDir >>, << "t", "e", "x", ".", "p", "n", "g", ".", "m", "e", "t", "a" >>,
          GuidKey \o GuidC \o Newline, TRUE),
     \* asset files
     File(<< AssetsDir >>, << "a", ".", "p", "r", "e", "f", "a", "b" >>,
          ObjectLine \o ScriptRef(GuidA), TRUE),
     File(<< AssetsDir >>, << "b", ".", "u", "n", "i", "t", "y" >>,
          ObjectLine \o ScriptRef(upper(GuidA)), TRUE),
     File(<< AssetsDir, << "S", "u", "b" >> >>, << "c", ".", "a", "s", "s", "e", "t" >>,
          ScriptRef(GuidA) \o CompactRef(GuidC) \o ScriptRef(GuidB), TRUE),
     File(<< AssetsDir >>, << "d", ".", "P", "R", "E", "F", "A", "B" >>,
          SeparatorRef(GuidB), TRUE),
     File(<< AssetsDir >>, << "e", ".", "p", "r", "e", "f", "a", "b" >>,
          ObjectLine \o IconRef(GuidC), TRUE),
     File(<< AssetsDir >>, << "f", ".", "u", "n", "i", "t", "y" >>,
          ScriptRef(GuidC), FALSE),
     File(<< << "L", "i", "b" >> >>, << "g", ".", "p", "r", "e", "f", "a", "b" >>,
          ScriptRef(GuidC), TRUE),
     File(<< AssetsDir >>, << "h", ".", "t", "x", "t" >>,
          ScriptRef(GuidC), TRUE) >>

FileIds == 1..Len(Catalogue)

Trees == { T \in SUBSET FileIds : Cardinality(T) <= MaxFiles }

(***************************************************************************)
(* The two loop bodies on the files of the catalogue.  The result of a     *)
(* loop body depends on the file and, in pass 2, on script_guids only, so  *)
(* it is tabulated once for every file.  Combining a function with the     *)
(* empty function by @@ leaves it unchanged and makes TLC store it as a    *)
(* table instead of an expression to evaluate at every application.        *)
(***************************************************************************)
\* for each file, the guids the body of the collection loop adds
FileGuids == [ f \in FileIds |-> collectFile(Catalogue[f]) ] @@ << >>

\* the values script_guids can take
GuidSets == SUBSET (UNION { FileGuids[f] : f \in FileIds })

\* for each file and each value of script_guids, the records the body of
\* the scan loop adds
FileRecords ==
  [ f \in FileIds |->
      [ guids \in GuidSets |-> scanFile(Catalogue[f], guids) ] @@ << >> ] @@ << >>

(***************************************************************************)
(* State.                                                                  *)
(***************************************************************************)
VARIABLES
  tree,          \* the files under root (ids of the catalogue)
  pc,            \* "collect", "scan", "report" or "done"
  todo,          \* the files the current os.walk has not yielded yet
  script_guids,  \* the set script_guids
  missing,       \* the set missing
  output,        \* the lines printed so far
  run,           \* 1 in the first run of the script, 2 in a second one
  firstTree,     \* in a second run: the tree of the first run
  firstOutput    \* in a second run: the output of the first run

vars == << tree, pc, todo, script_guids, missing, output, run, firstTree, firstOutput >>

Init ==
  /\ tree \in Trees
  /\ pc = "collect"
  /\ todo = tree
  /\ script_guids = {}
  /\ missing = {}
  /\ output = << >>
  /\ run = 1
  /\ firstTree = {}
  /\ firstOutput = << >>

\* one iteration of the walk over root: the whole loop body for file f
Collect(f) ==
  /\ pc = "collect"
  /\ f \in todo
  /\ script_guids' = script_guids \cup FileGuids[f]
  /\ todo' = todo \ {f}
  /\ UNCHANGED << tree, pc, missing, output, run, firstTree, firstOutput >>

\* variant: the scan starts while the walk over root still has files to yield
BeginScanEarly ==
  /\ pc = "collect"
  /\ pc' = "scan"
  /\ missing' = {}
  /\ todo' = { f \in tree : underAssets(Catalogue[f]) }
  /\ UNCHANGED << tree, script_guids, output, run, firstTree, firstOutput >>

\* the walk over root is exhausted: compile the pattern, missing = set(),
\* and start the walk over assets_root
BeginScan ==
  /\ pc = "collect"
  /\ todo = {}
  /\ pc' = "scan"
  /\ missing' = {}
  /\ todo' = { f \in tree : underAssets(Catalogue[f]) }
  /\ UNCHANGED << tree, script_guids, output, run, firstTree, firstOutput >>

\* variant: the break after the first record leaves the walk as well
ScanStopWalk(f) ==
  /\ pc = "scan"
  /\ f \in todo
  /\ missing' = missing \cup FileRecords[f][script_guids]
  /\ todo' = IF missing' # {} THEN {} ELSE todo \ {f}
  /\ UNCHANGED << tree, pc, script_guids, output, run, firstTree, firstOutput >>

\* one iteration of the walk over assets_root: the whole loop body for file f
Scan(f) ==
  /\ pc = "scan"
  /\ f \in todo
  /\ missing' = missing \cup FileRecords[f][script_guids]
  /\ todo' = todo \ {f}
  /\ UNCHANGED << tree, pc, script_guids, output, run, firstTree, firstOutput >>

\* the walk over assets_root is exhausted: print the report and exit
Report ==
  /\ pc = "scan"
  /\ todo = {}
  /\ output' = report(missing)
  /\ pc' = "done"
  /\ UNCHANGED << tree, todo, script_guids, missing, run, firstTree, firstOutput >>

\* the files of a tree that open() refuses
Unreadable(T) == { f \in T : ~Catalogue[f].readable }

\* the script is started a second time, on the unchanged tree or on the
\* tree without its unreadable files
Rerun(T) ==
  /\ pc = "done"
  /\ run = 1
  /\ run' = 2
  /\ firstTree' = tree
  /\ firstOutput' = output
  /\ tree' = T
  /\ pc' = "collect"
  /\ todo' = T
  /\ script_guids' = {}
  /\ missing' = {}
  /\ output' = << >>

Next ==
  \/ \E f \in FileIds : Collect(f)
  \/ BeginScan
  \/ \E f \in FileIds : Scan(f)
  \/ Report

NextRerun ==
  \/ Next
  \/ \E T \in { tree, tree \ Unreadable(tree) } : Rerun(T)

\* one run of the script
Spec == Init /\ [][Next]_vars

\* two runs of the script, neither of which stops before its end
FairSpecRerun == Init /\ [][NextRerun]_vars /\ WF_vars(Next)

\* two runs of the script
SpecRerun == Init /\ [][NextRerun]_vars

(***************************************************************************)
(* Vocabulary of the properties, stated on the text of the files and       *)
(* independently of the operators the passes are computed with.            *)
(***************************************************************************)
\* the files of the tree the walk over root has already yielded
Visited == IF pc = "collect" THEN tree \ todo ELSE tree

\* the metadata files of a tree
Metas(T) == { f \in T : isMeta(Catalogue[f]) }

\* the asset files of a tree that pass 2 opens and reads
Scanned(T) ==
  { f \in T : /\ underAssets(Catalogue[f])
              /\ isTarget(Catalogue[f])
              /\ Catalogue[f].readable }

\* a line of text begins at position i
LineStart(text, i) == i \in 1..Len(text) /\ (i = 1 \/ text[i - 1] = "\n")

\* a line of text begins at position i with the key 'guid: '
KeyAt(text, i) ==
  /\ LineStart(text, i)
  /\ i + Len(GuidKey) - 1 <= Len(text)
  /\ \A k \in 1..Len(GuidKey) : text[i + k - 1] = GuidKey[k]

\* the line that begins at position i ends at position e
LineEnd(text, i, e) ==
  /\ e \in i..Len(text)
  /\ \A k \in i..(e - 1) : text[k] # "\n"
  /\ (text[e] = "\n" \/ e = Len(text))

\* v is the value of the key 'guid' on the line that begins at position i:
\* what stands after the colon, without the white space around it
ValueAt(text, i, v) ==
  /\ KeyAt(text, i)
  /\ \E e \in i..Len(text) :
       /\ LineEnd(text, i, e)
       /\ \E s \in (i + 5)..(e + 1) :
            /\ s + Len(v) - 1 <= e
            /\ \A k \in 1..Len(v) : text[s + k - 1] = v[k]
            /\ \A k \in (i + 5)..(s - 1) : isspace(text[k])
            /\ \A k \in (s + Len(v))..e : isspace(text[k])
            /\ (v # << >> => ~isspace(v[1]) /\ ~isspace(v[Len(v)]))

\* the values a set of guids can hold in the model
GuidUniverse ==
  { GuidA, GuidB, GuidC, upper(GuidA), upper(GuidB), upper(GuidC), << >> }

\* for each file of the catalogue, the identifiers it declares, one for each
\* of its 'guid: ' lines
DeclaredOf ==
  [ f \in FileIds |->
      { v \in GuidUniverse :
          \E i \in 1..Len(Catalogue[f].text) : ValueAt(Catalogue[f].text, i, v) } ]

Declared(f) == DeclaredOf[f]

\* the files of the catalogue that have exactly one 'guid: ' line
DeclaresOneSet ==
  { f \in FileIds :
      Cardinality({ i \in 1..Len(Catalogue[f].text) :
                      KeyAt(Catalogue[f].text, i) }) = 1 }

DeclaresOne(f) == f \in DeclaresOneSet

\* for each file of the catalogue, the value of its first 'guid: ' line
FirstDeclaredOf ==
  [ f \in FileIds |->
      { v \in GuidUniverse :
          \E i \in 1..Len(Catalogue[f].text) :
            /\ ValueAt(Catalogue[f].text, i, v)
            /\ \A j \in 1..(i - 1) : ~KeyAt(Catalogue[f].text, j) } ]

FirstDeclared(f, v) == v \in FirstDeclaredOf[f]

\* for each file of the catalogue, its script references, in file order, as
\* written in the file
RefsOf == [ f \in FileIds |-> finditer(Catalogue[f].text) ]

Refs(f) == RefsOf[f]

\* for each file of the catalogue, its path relative to root
PathOf == [ f \in FileIds |-> relpath(Catalogue[f]) ]

\* the records of the missing set for file f
RecordsOf(f) == { rec \in missing : rec[1] = PathOf[f] }

\* the positions of the references of f that name no collected identifier
AbsentRefs(f) ==
  { i \in 1..Len(Refs(f)) : lower(Refs(f)[i]) \notin script_guids }

(***************************************************************************)
(* C1: when every metadata file of the tree is readable and has one        *)
(* 'guid: ' line, the set the collector has built when it finishes is      *)
(* exactly the set of the declared identifiers, whatever the visit order.  *)
(***************************************************************************)
C1_CollectorExact ==
  ( /\ pc \in {"scan", "done"}
    /\ \A f \in Metas(tree) : Catalogue[f].readable /\ DeclaresOne(f) )
  => script_guids = UNION { Declared(f) : f \in Metas(tree) }

C1_Witness ==
  /\ pc = "scan"
  /\ Cardinality(Metas(tree)) = 2
  /\ tree # Metas(tree)
  /\ \A f \in Metas(tree) : Catalogue[f].readable /\ DeclaresOne(f)
  /\ Cardinality(script_guids) = 2

(***************************************************************************)
(* C2: at the end of the run, every scanned asset file with at least one   *)
(* reference to an uncollected identifier has exactly one record in the    *)
(* missing set, and it names the first such reference in file order.       *)
(***************************************************************************)
C2_OneRecordFirstAbsent ==
  pc = "done" =>
    \A f \in Scanned(tree) :
      AbsentRefs(f) # {} =>
        LET first == CHOOSE i \in AbsentRefs(f) : \A j \in AbsentRefs(f) : i <= j
        IN  RecordsOf(f) = { << PathOf[f], lower(Refs(f)[first]) >> }

C2_Witness ==
  /\ pc = "done"
  /\ \E f \in Scanned(tree) :
       /\ Cardinality(AbsentRefs(f)) >= 2
       /\ 1 \notin AbsentRefs(f)
       /\ Cardinality(RecordsOf(f)) = 1

(***************************************************************************)
(* C3: no false positives.  Every record of the missing set names a guid   *)
(* that is not collected and that a script reference of that file carries; *)
(* a file without script references, or whose references all name          *)
(* collected identifiers, has no record.                                   *)
(***************************************************************************)
C3_NoFalsePositive ==
  /\ \A rec \in missing :
       /\ rec[2] \notin script_guids
       /\ \E f \in tree :
            /\ PathOf[f] = rec[1]
            /\ \E i \in 1..Len(Refs(f)) : lower(Refs(f)[i]) = rec[2]
  /\ \A f \in tree : AbsentRefs(f) = {} => RecordsOf(f) = {}

C3_Witness ==
  /\ pc = "done"
  /\ missing # {}
  /\ \E f \in Scanned(tree) :
       Refs(f) # << >> /\ AbsentRefs(f) = {} /\ RecordsOf(f) = {}

(***************************************************************************)
(* C4: the walk over root is left only when it has yielded every file, so  *)
(* that script_guids holds the identifier of every readable metadata file, *)
(* and from then on script_guids never changes; the missing set changes    *)
(* only during the walk over assets_root.                                  *)
(***************************************************************************)
C4_CollectBeforeScan ==
  [][ /\ (pc = "collect" /\ pc' # "collect") =>
           /\ todo = {}
           /\ \A f \in Metas(tree) :
                Catalogue[f].readable => FirstDeclaredOf[f] \subseteq script_guids'
      /\ pc # "collect" => (script_guids' = script_guids /\ pc' # "collect")
      /\ missing' # missing => (pc = "scan" /\ pc' = "scan") ]_vars

C4_Witness ==
  /\ pc = "scan"
  /\ missing # {}
  /\ script_guids # {}
  /\ todo # {}

(***************************************************************************)
(* C5: a reference written with uppercase hex digits, whose guid was       *)
(* collected in lowercase, gives no record for its file.                   *)
(***************************************************************************)
C5_UppercaseReference ==
  \A f \in tree :
    \A i \in 1..Len(Refs(f)) :
      ( Refs(f)[i] # lower(Refs(f)[i]) /\ lower(Refs(f)[i]) \in script_guids )
      => \A rec \in RecordsOf(f) : lower(rec[2]) # lower(Refs(f)[i])

C5_Witness ==
  /\ pc = "done"
  /\ \E f \in Scanned(tree) :
       \E i \in 1..Len(Refs(f)) :
         Refs(f)[i] # lower(Refs(f)[i]) /\ lower(Refs(f)[i]) \in script_guids

(***************************************************************************)
(* C6 as stated: a reference whose guid equals a collected identifier up   *)
(* to letter case is never reported, whatever the case of the guid in the  *)
(* metadata file.                                                          *)
(***************************************************************************)
C6_AnyCaseMetadata ==
  pc = "done" =>
    \A f \in Scanned(tree) :
      \A i \in 1..Len(Refs(f)) :
        (\E g \in script_guids : lower(g) = lower(Refs(f)[i]))
        => \A rec \in RecordsOf(f) : lower(rec[2]) # lower(Refs(f)[i])

(***************************************************************************)
(* C6 amended: the collector stores the identifier of a metadata file in   *)
(* the case it was read, and a reference whose guid equals, up to letter   *)
(* case, a collected identifier that is written in lowercase is never      *)
(* reported.                                                               *)
(***************************************************************************)
C6_CaseAsReadLowercaseMatch ==
  /\ \A f \in Metas(Visited) :
       Catalogue[f].readable
       => \A v \in GuidUniverse : FirstDeclared(f, v) => v \in script_guids
  /\ pc = "done" =>
       \A f \in Scanned(tree) :
         \A i \in 1..Len(Refs(f)) :
           (\E g \in script_guids : g = lower(g) /\ g = lower(Refs(f)[i]))
           => \A rec \in RecordsOf(f) : lower(rec[2]) # lower(Refs(f)[i])

C6_Witness ==
  /\ pc = "done"
  /\ \E g \in script_guids : g # lower(g) /\ lower(g) \in script_guids
  /\ \E f \in Scanned(tree) :
       Refs(f) # << >> /\ AbsentRefs(f) = {} /\ RecordsOf(f) = {}

(***************************************************************************)
(* C7: the output of a finished run is either the single line 'No missing  *)
(* scripts under Assets', exactly when the missing set is empty, or one    *)
(* line 'path -> guid' for each record of the missing set, in strictly     *)
(* ascending order of (path, guid); it is never empty.                     *)
(***************************************************************************)
C7_OutputShape ==
  pc = "done" =>
    /\ output # << >>
    /\ missing = {} <=> output = << NoMissingLine >>
    /\ missing # {} =>
         /\ Len(output) = Cardinality(missing)
         /\ \A i \in 1..Len(output) : output[i] # NoMissingLine
         /\ \A i, j \in 1..Len(output) : i < j => output[i] # output[j]
         /\ \E s \in [1..Len(output) -> missing] :
              /\ \A i \in 1..Len(output) :
                   output[i] = s[i][1] \o ArrowText \o s[i][2]
              /\ \A i, j \in 1..Len(output) :
                   i < j =>
                     \/ strLess(s[i][1], s[j][1])
                     \/ s[i][1] = s[j][1] /\ strLess(s[i][2], s[j][2])

C7_Witness ==
  /\ pc = "done"
  /\ Len(output) >= 2
  /\ Cardinality(missing) >= 2

(***************************************************************************)
(* C8: an unreadable file gives no identifier and no record, an asset file *)
(* that refers to the uncollected guid of an unreadable metadata file is   *)
(* reported, the run ends with output, and the output is the one of a run  *)
(* on the tree without the unreadable files.                               *)
(***************************************************************************)
C8_UnreadableSkipped ==
  /\ [](/\ \A f \in Unreadable(tree) : RecordsOf(f) = {}
        /\ \A g \in script_guids :
             \E f \in Metas(tree) : Catalogue[f].readable /\ FirstDeclared(f, g)
        /\ pc = "done" =>
             \A f \in Scanned(tree) :
               (\E i \in 1..Len(Refs(f)) :
                  /\ lower(Refs(f)[i]) \notin script_guids
                  /\ \E u \in Metas(Unreadable(tree)) :
                       lower(Refs(f)[i]) \in Declared(u))
               => RecordsOf(f) # {}
        /\ ( /\ pc = "done"
             /\ run = 2
             /\ tree = firstTree \ Unreadable(firstTree) )
           => output = firstOutput)
  /\ (pc # "done") ~> (pc = "done" /\ output # << >>)

C8_Witness ==
  /\ pc = "done"
  /\ run = 2
  /\ tree = firstTree \ Unreadable(firstTree)
  /\ \E u \in Metas(Unreadable(firstTree)) :
       \E f \in Scanned(tree) :
         \E i \in 1..Len(Refs(f)) :
           /\ Refs(f)[i] \in Declared(u)
           /\ << PathOf[f], Refs(f)[i] >> \in missing

(***************************************************************************)
(* C9: a second run on the unchanged tree prints what the first run        *)
(* printed, whatever the visit orders of the two walks of either run.      *)
(***************************************************************************)
C9_SameOutputTwice ==
  (pc = "done" /\ run = 2 /\ tree = firstTree) => output = firstOutput

C9_Witness ==
  /\ pc = "done"
  /\ run = 2
  /\ tree = firstTree
  /\ Len(output) >= 2

(***************************************************************************)
(* C10: every collected identifier is the trimmed value of the first       *)
(* 'guid: ' line of a visited, readable metadata file, so the collected    *)
(* set is never larger than the number of metadata files visited.          *)
(***************************************************************************)
C10_OnePerFile ==
  /\ \A g \in script_guids :
       \E f \in Metas(Visited) : Catalogue[f].readable /\ FirstDeclared(f, g)
  /\ Cardinality(script_guids) <= Cardinality(Metas(Visited))

C10_Witness ==
  /\ pc = "collect"
  /\ \E f \in Metas(Visited) :
       /\ Cardinality(Declared(f)) = 2
       /\ Cardinality(Declared(f) \cap script_guids) = 1
       /\ Cardinality(script_guids) = Cardinality(Metas(Visited))
====
